---- MODULE Spec2Model ----
(***************************************************************************)
(* Model of the Dashboard component of the Calgary 3D building dashboard   *)
(* (src/unnamed/part_002) with its QueryPanel, ProjectPanel and            *)
(* ZoneSelector collaborators: query interpretation, filter evaluation,    *)
(* project save / restore and the asynchronous persistence calls.          *)
(*                                                                         *)
(* Strings are TLA+ strings; substring search, lower-casing, trimming and  *)
(* the two regular expressions are computed character by character.        *)
(* Numbers that may carry decimals (heights, height thresholds) are        *)
(* fixed-point integers in units of 1/Scale metre, so that x * 0.3048 and  *)
(* the rounding to two decimals are exact.                                 *)
(***************************************************************************)
EXTENDS Integers, Sequences, FiniteSets, TLC

\* ------------------------------------------------------------------------
\* String primitives (JavaScript String.prototype / global functions)
\* ------------------------------------------------------------------------

\* One unit of a decimal number is 1/Scale (five decimals).
Scale == 100000

UpperChars == "ABCDEFGHIJKLMNOPQRSTUVWXYZ"

LowerChars == "abcdefghijklmnopqrstuvwxyz"

DigitChars == "0123456789"

\* s.charAt(i): the empty string outside the string.
CharAt(s, i) == IF 1 <= i /\ i <= Len(s) THEN SubSeq(s, i, i) ELSE ""

\* Position of the one-character string c in alphabet, 0 when absent.
IndexIn(alphabet, c) ==
    IF \E i \in 1..Len(alphabet) : CharAt(alphabet, i) = c
    THEN CHOOSE i \in 1..Len(alphabet) : CharAt(alphabet, i) = c
    ELSE 0

\* s.includes(sub)
includes(s, sub) ==
    \E i \in 1..(Len(s) - Len(sub) + 1) : SubSeq(s, i, i + Len(sub) - 1) = sub

RECURSIVE toLowerCase(_)
\* s.toLowerCase()
toLowerCase(s) ==
    IF s = "" THEN ""
    ELSE LET c == CharAt(s, 1)
             k == IndexIn(UpperChars, c)
         IN  (IF k = 0 THEN c ELSE CharAt(LowerChars, k))
                \o toLowerCase(SubSeq(s, 2, Len(s)))

IsSpace(c) == c = " "

IsDigit(c) == IndexIn(DigitChars, c) # 0

RECURSIVE trim(_)
\* s.trim()
trim(s) ==
    IF s = "" THEN ""
    ELSE IF IsSpace(CharAt(s, 1)) THEN trim(SubSeq(s, 2, Len(s)))
    ELSE IF IsSpace(CharAt(s, Len(s))) THEN trim(SubSeq(s, 1, Len(s) - 1))
    ELSE s

\* Length of the longest run of digits of s that starts at position i.
RECURSIVE DigitRun(_, _)
DigitRun(s, i) ==
    IF i <= Len(s) /\ IsDigit(CharAt(s, i)) THEN 1 + DigitRun(s, i + 1) ELSE 0

\* Length of the longest run of white space of s that starts at position i.
RECURSIVE SpaceRun(_, _)
SpaceRun(s, i) ==
    IF i <= Len(s) /\ IsSpace(CharAt(s, i)) THEN 1 + SpaceRun(s, i + 1) ELSE 0

\* parseInt of a string of digits.
RECURSIVE parseInt(_)
parseInt(digits) ==
    IF digits = "" THEN 0
    ELSE 10 * parseInt(SubSeq(digits, 1, Len(digits) - 1))
            + (IndexIn(DigitChars, CharAt(digits, Len(digits))) - 1)

StartsWithAt(s, i, word) ==
    i + Len(word) - 1 <= Len(s) /\ SubSeq(s, i, i + Len(word) - 1) = word

\* s.match(/(\d+)\s*(?:w1|w2|...)/): the first capture group of the leftmost
\* match, as <<digits>>, or <<>> when nothing matches.  The digits are
\* followed by white space or by a letter of one of the words, so the capture
\* is a whole run of digits; starts holds the words' distinguishing prefixes.
DigitsBefore(s, starts) ==
    LET Matches(i) ==
            LET d == DigitRun(s, i)
                j == i + d + SpaceRun(s, i + d)
            IN  d > 0 /\ \E w \in starts : StartsWithAt(s, j, w)
    IN  IF \E i \in 1..Len(s) : Matches(i)
        THEN LET i == CHOOSE k \in 1..Len(s) :
                         Matches(k) /\ \A l \in 1..(k - 1) : ~Matches(l)
             IN  <<SubSeq(s, i, i + DigitRun(s, i) - 1)>>
        ELSE <<>>

\* heightStr.replace(/[^\d.]/g, '')
RECURSIVE stripNonNumeric(_)
stripNonNumeric(s) ==
    IF s = "" THEN ""
    ELSE LET c == CharAt(s, 1)
         IN  (IF IsDigit(c) \/ c = "." THEN c ELSE "")
                \o stripNonNumeric(SubSeq(s, 2, Len(s)))

Pow10(n) == IF n = 0 THEN 1 ELSE IF n = 1 THEN 10 ELSE IF n = 2 THEN 100
            ELSE IF n = 3 THEN 1000 ELSE IF n = 4 THEN 10000 ELSE 100000

\* parseFloat(s) for a string of digits and points: the longest prefix of the
\* shape digits[.digits] (or .digits), as <<fixed-point value>>, or <<>> for NaN.
parseFloat(s) ==
    LET ip == DigitRun(s, 1)
        hasPoint == CharAt(s, ip + 1) = "."
        fp == IF hasPoint THEN DigitRun(s, ip + 2) ELSE 0
        fd == IF fp > 5 THEN 5 ELSE fp
    IN  IF ip = 0 /\ fp = 0 THEN <<>>
        ELSE <<parseInt(SubSeq(s, 1, ip)) * Scale
               + parseInt(SubSeq(s, ip + 2, ip + 1 + fd)) * Pow10(5 - fd)>>

\* The decimal text of a fixed-point value, as `${value}` prints a number:
\* no decimal point for an integer, no trailing zeros.
RECURSIVE FracText(_, _)
FracText(f, width) ==
    IF f = 0 THEN ""
    ELSE ToString(f \div Pow10(width - 1))
            \o FracText(f % Pow10(width - 1), width - 1)

FormatNumber(v) ==
    ToString(v \div Scale)
        \o (IF v % Scale = 0 THEN "" ELSE "." \o FracText(v % Scale, 5))

\* ------------------------------------------------------------------------
\* Building records
\* ------------------------------------------------------------------------

\* The optional values of the code (null, undefined, NaN against a value) are
\* sequences: <<>> for none, <<v>> for the value v.
None == <<>>

Some(v) == <<v>>

NumericFields == {"height_m", "height_ft", "floors"}

\* b.properties?.field as a value: the field is present.
Has(b, field) == field \in DOMAIN b.properties

\* b.properties?.field as a condition: present and not falsy (0 or '').
Truthy(b, field) ==
    /\ Has(b, field)
    /\ IF field \in NumericFields
       THEN b.properties[field] # 0
       ELSE b.properties[field] # ""

\* ------------------------------------------------------------------------
\* handleQuerySubmit: interpretation of the lower-cased query
\* ------------------------------------------------------------------------

\* Intent with the height rule tested before the building types.
IntentHeightFirst(query) ==
    IF includes(query, "height") \/ includes(query, "tall")
       \/ includes(query, "meters") \/ includes(query, "metres")
       \/ includes(query, "feet") \/ includes(query, "ft")
    THEN "height"
    ELSE IF includes(query, "low rise") \/ includes(query, "low-rise")
    THEN "low_rise"
    ELSE IF includes(query, "mid rise") \/ includes(query, "mid-rise")
            \/ includes(query, "medium rise")
    THEN "mid_rise"
    ELSE IF includes(query, "high rise") \/ includes(query, "high-rise")
            \/ includes(query, "tall")
    THEN "high_rise"
    ELSE IF includes(query, "single story") \/ includes(query, "single-story")
            \/ includes(query, "one story")
    THEN "single_story"
    ELSE IF includes(query, "floor") \/ includes(query, "floors")
            \/ includes(query, "story") \/ includes(query, "stories")
    THEN "floors"
    ELSE IF includes(query, "commercial") \/ includes(query, "business")
            \/ includes(query, "office") \/ includes(query, "retail")
    THEN "commercial"
    ELSE IF includes(query, "residential") \/ includes(query, "home")
            \/ includes(query, "house") \/ includes(query, "apartment")
    THEN "residential"
    ELSE IF includes(query, "mixed use") \/ includes(query, "mixed-use")
            \/ includes(query, "mixed")
    THEN "mixed_use"
    ELSE "none"

\* Intent with the residential rule tested before the commercial rule.
IntentResidentialFirst(query) ==
    IF includes(query, "low rise") \/ includes(query, "low-rise")
    THEN "low_rise"
    ELSE IF includes(query, "mid rise") \/ includes(query, "mid-rise")
            \/ includes(query, "medium rise")
    THEN "mid_rise"
    ELSE IF includes(query, "high rise") \/ includes(query, "high-rise")
            \/ includes(query, "tall")
    THEN "high_rise"
    ELSE IF includes(query, "single story") \/ includes(query, "single-story")
            \/ includes(query, "one story")
    THEN "single_story"
    ELSE IF includes(query, "height") \/ includes(query, "tall")
            \/ includes(query, "meters") \/ includes(query, "metres")
            \/ includes(query, "feet") \/ includes(query, "ft")
    THEN "height"
    ELSE IF includes(query, "floor") \/ includes(query, "floors")
            \/ includes(query, "story") \/ includes(query, "stories")
    THEN "floors"
    ELSE IF includes(query, "residential") \/ includes(query, "home")
            \/ includes(query, "house") \/ includes(query, "apartment")
    THEN "residential"
    ELSE IF includes(query, "commercial") \/ includes(query, "business")
            \/ includes(query, "office") \/ includes(query, "retail")
    THEN "commercial"
    ELSE IF includes(query, "mixed use") \/ includes(query, "mixed-use")
            \/ includes(query, "mixed")
    THEN "mixed_use"
    ELSE "none"

\* The branch of the if / else-if chain that the query takes.
Intent(query) ==
    IF includes(query, "low rise") \/ includes(query, "low-rise")
    THEN "low_rise"
    ELSE IF includes(query, "mid rise") \/ includes(query, "mid-rise")
            \/ includes(query, "medium rise")
    THEN "mid_rise"
    ELSE IF includes(query, "high rise") \/ includes(query, "high-rise")
            \/ includes(query, "tall")
    THEN "high_rise"
    ELSE IF includes(query, "single story") \/ includes(query, "single-story")
            \/ includes(query, "one story")
    THEN "single_story"
    ELSE IF includes(query, "height") \/ includes(query, "tall")
            \/ includes(query, "meters") \/ includes(query, "metres")
            \/ includes(query, "feet") \/ includes(query, "ft")
    THEN "height"
    ELSE IF includes(query, "floor") \/ includes(query, "floors")
            \/ includes(query, "story") \/ includes(query, "stories")
    THEN "floors"
    ELSE IF includes(query, "commercial") \/ includes(query, "business")
            \/ includes(query, "office") \/ includes(query, "retail")
    THEN "commercial"
    ELSE IF includes(query, "residential") \/ includes(query, "home")
            \/ includes(query, "house") \/ includes(query, "apartment")
    THEN "residential"
    ELSE IF includes(query, "mixed use") \/ includes(query, "mixed-use")
            \/ includes(query, "mixed")
    THEN "mixed_use"
    ELSE "none"

BuildingTypeIntents == {"low_rise", "mid_rise", "high_rise", "single_story"}

LandUseIntents == {"commercial", "residential", "mixed_use"}

\* query.match(/(\d+)\s*(?:meters?|metres?|m|feet?|ft)/i): every alternative
\* begins with m, fee or ft.
heightMatch(query) == DigitsBefore(query, {"m", "fee", "ft"})

\* x * 0.3048 for a fixed-point x, multiplied in two parts to stay within
\* 32 bits; exact for every x given to one decimal.
TimesFootInMeters(x) ==
    (x \div 10000) * 3048 + ((x % 10000) * 3048) \div 10000

\* Math.round(feet * 0.3048 * 100) / 100, in fixed point.
FeetToMetersRounded(feet) == ((feet * 3048 + 50) \div 100) * (Scale \div 100)

\* let heightValue = 50, replaced by the matched integer, converted from feet
\* when the query contains 'feet' or 'ft'.
heightValue(query) ==
    IF heightMatch(query) = None THEN 50 * Scale
    ELSE LET n == parseInt(heightMatch(query)[1])
         IN  IF includes(query, "feet") \/ includes(query, "ft")
             THEN FeetToMetersRounded(n)
             ELSE n * Scale

\* operator that does not look for 'below'.
operatorWithoutBelow(query) ==
    IF includes(query, "under") \/ includes(query, "less than")
    THEN "<" ELSE ">"

\* operator with '=' where no direction is found.
operatorDefaultEq(query) ==
    IF includes(query, "under") \/ includes(query, "below")
       \/ includes(query, "less than")
    THEN "<"
    ELSE IF includes(query, "over") \/ includes(query, "more than")
    THEN ">" ELSE "="

\* let operator = '>', replaced by '<' on under / below / less than.
operator(query) ==
    IF includes(query, "under") \/ includes(query, "below")
       \/ includes(query, "less than")
    THEN "<" ELSE ">"

\* query.match(/(\d+)\s*(?:floor|story)/i)
floorMatch(query) == DigitsBefore(query, {"floor", "story"})

\* floorValue with another default: let floorValue = 10.
floorValueDefaultTen(query) ==
    IF floorMatch(query) = None THEN 10 ELSE parseInt(floorMatch(query)[1])

floorValue(query) ==
    IF floorMatch(query) = None THEN 5 ELSE parseInt(floorMatch(query)[1])

\* The number a height string holds once everything but digits and points
\* is removed; None when the string has no unit or no number.
HeightOfString(heightStr) ==
    IF includes(heightStr, "ft") \/ includes(heightStr, "feet")
    THEN LET ftValue == parseFloat(stripNonNumeric(heightStr))
         IN  IF ftValue = None THEN None
             ELSE Some(TimesFootInMeters(ftValue[1]))
    ELSE IF includes(heightStr, "m") \/ includes(heightStr, "meters")
            \/ includes(heightStr, "metres")
    THEN parseFloat(stripNonNumeric(heightStr))
    ELSE None

\* heightInMeters with no guard on null: in a comparison null counts as 0.
heightNullAsZero(b) ==
    IF Truthy(b, "height_m") THEN Some(b.properties.height_m)
    ELSE IF Truthy(b, "height_ft")
    THEN Some(TimesFootInMeters(b.properties.height_ft))
    ELSE IF Truthy(b, "height")
            /\ HeightOfString(toLowerCase(b.properties.height)) # None
    THEN HeightOfString(toLowerCase(b.properties.height))
    ELSE Some(0)

\* let heightInMeters = null, set from height_m, else height_ft, else height.
heightInMeters(b) ==
    IF Truthy(b, "height_m") THEN Some(b.properties.height_m)
    ELSE IF Truthy(b, "height_ft")
    THEN Some(TimesFootInMeters(b.properties.height_ft))
    ELSE IF Truthy(b, "height")
    THEN HeightOfString(toLowerCase(b.properties.height))
    ELSE None

\* landUse without the lower-casing: b.properties?.land_use || ''
landUseAsWritten(b) == IF Has(b, "land_use") THEN b.properties.land_use ELSE ""

\* b.properties?.land_use?.toLowerCase() || ''
landUse(b) == IF Has(b, "land_use") THEN toLowerCase(b.properties.land_use) ELSE ""

IncludesAny(s, words) == \E w \in words : includes(s, w)

\* The callback handed to buildings.filter in the branch of the intent.
InterpretKeeps(b, query, intent) ==
    IF intent \in BuildingTypeIntents
    THEN Has(b, "building_type") /\ b.properties.building_type = intent
    ELSE IF intent = "height"
    THEN /\ heightInMeters(b) # None
         /\ IF operator(query) = ">"
            THEN heightInMeters(b)[1] > heightValue(query)
            ELSE heightInMeters(b)[1] < heightValue(query)
    ELSE IF intent = "floors"
    THEN /\ Truthy(b, "floors")
         /\ IF operator(query) = ">"
            THEN b.properties.floors > floorValue(query)
            ELSE b.properties.floors < floorValue(query)
    ELSE IF intent = "commercial"
    THEN IncludesAny(landUse(b),
            {"commercial", "business", "office", "retail", "shop", "store"})
    ELSE IF intent = "residential"
    THEN IncludesAny(landUse(b),
            {"residential", "home", "house", "apartment", "condo", "dwelling"})
    ELSE IF intent = "mixed_use"
    THEN IncludesAny(landUse(b), {"mixed", "multi", "combination"})
    ELSE FALSE

\* filteredBuildings when the default branch leaves the collection as it is.
InterpretBuildingsDefaultAll(buildingList, query) ==
    IF Intent(query) = "none" THEN buildingList
    ELSE SelectSeq(buildingList,
                   LAMBDA b : InterpretKeeps(b, query, Intent(query)))

\* filteredBuildings at the end of the chain.
InterpretBuildings(buildingList, query) ==
    SelectSeq(buildingList, LAMBDA b : InterpretKeeps(b, query, Intent(query)))

BuildingTypeDescription(type) ==
    IF type = "low_rise" THEN "Low rise buildings (2-4 floors)"
    ELSE IF type = "mid_rise" THEN "Mid rise buildings (5-9 floors)"
    ELSE IF type = "high_rise" THEN "High rise buildings (10+ floors)"
    ELSE "Single story buildings"

LandUseDescription(category) ==
    IF category = "commercial"
    THEN "Commercial buildings (business, office, retail)"
    ELSE IF category = "residential"
    THEN "Residential buildings (homes, apartments, condos)"
    ELSE "Mixed use buildings (residential + commercial)"

\* filter at the end of the chain: None for null.
InterpretFilter(query) ==
    LET intent == Intent(query)
    IN  IF intent \in BuildingTypeIntents
        THEN Some([attribute |-> "building_type", operator |-> "=",
                   value |-> intent,
                   description |-> BuildingTypeDescription(intent)])
        ELSE IF intent = "height"
        THEN Some([attribute |-> "height_m", operator |-> operator(query),
                   value |-> heightValue(query),
                   description |->
                       "Buildings "
                       \o (IF operator(query) = ">" THEN "taller" ELSE "shorter")
                       \o " than " \o FormatNumber(heightValue(query))
                       \o " meters"])
        ELSE IF intent = "floors"
        THEN Some([attribute |-> "floors", operator |-> operator(query),
                   value |-> floorValue(query),
                   description |->
                       "Buildings with "
                       \o (IF operator(query) = ">" THEN "more" ELSE "fewer")
                       \o " than " \o ToString(floorValue(query))
                       \o " floors"])
        ELSE IF intent \in LandUseIntents
        THEN Some([attribute |-> "land_use", operator |-> "=",
                   value |-> intent,
                   description |-> LandUseDescription(intent)])
        ELSE None

\* ------------------------------------------------------------------------
\* handleLoadProject: evaluation of a saved filter
\* ------------------------------------------------------------------------

\* The callback handed to buildings.filter for savedFilter; FALSE where no
\* branch assigns filteredBuildings (it stays []).
RestoreKeeps(b, savedFilter) ==
    IF savedFilter.attribute = "height_m"
    THEN IF savedFilter.operator = ">"
         THEN Truthy(b, "height_m") /\ b.properties.height_m > savedFilter.value
         ELSE IF savedFilter.operator = "<"
         THEN Truthy(b, "height_m") /\ b.properties.height_m < savedFilter.value
         ELSE FALSE
    ELSE IF savedFilter.attribute = "floors"
    THEN IF savedFilter.operator = ">"
         THEN Truthy(b, "floors") /\ b.properties.floors > savedFilter.value
         ELSE IF savedFilter.operator = "<"
         THEN Truthy(b, "floors") /\ b.properties.floors < savedFilter.value
         ELSE FALSE
    ELSE IF savedFilter.attribute = "building_type"
    THEN Has(b, "building_type")
         /\ b.properties.building_type = savedFilter.value
    ELSE IF savedFilter.attribute = "land_use"
    THEN LET buildingLandUse == landUse(b)
             filterValue == toLowerCase(savedFilter.value)
         IN  IF filterValue = "commercial"
             THEN IncludesAny(buildingLandUse,
                     {"commercial", "business", "office", "retail"})
             ELSE IF filterValue = "residential"
             THEN IncludesAny(buildingLandUse,
                     {"residential", "home", "house", "apartment"})
             ELSE IF filterValue = "mixed_use"
             THEN IncludesAny(buildingLandUse, {"mixed", "multi", "combination"})
             ELSE buildingLandUse = filterValue
    ELSE FALSE

\* filteredBuildings of handleLoadProject when a filter on an attribute
\* that no branch knows keeps every building.
RestoreBuildingsAllOnUnknown(buildingList, savedFilter) ==
    IF savedFilter.attribute
          \in {"height_m", "floors", "building_type", "land_use"}
    THEN SelectSeq(buildingList, LAMBDA b : RestoreKeeps(b, savedFilter))
    ELSE buildingList

\* filteredBuildings of handleLoadProject with the last kept building first.
RestoreBuildingsReversed(buildingList, savedFilter) ==
    LET kept == SelectSeq(buildingList, LAMBDA b : RestoreKeeps(b, savedFilter))
    IN  [i \in 1..Len(kept) |-> kept[Len(kept) + 1 - i]]

\* filteredBuildings of handleLoadProject.
RestoreBuildings(buildingList, savedFilter) ==
    SelectSeq(buildingList, LAMBDA b : RestoreKeeps(b, savedFilter))

\* ------------------------------------------------------------------------
\* Inputs: the zones of the building data service, the queries a user types
\* ------------------------------------------------------------------------

NoZone == "null"

ZoneIds == {"stephen_avenue", "east_village"}

ZoneInfo(zoneId) ==
    IF zoneId = "stephen_avenue" THEN [name |-> "Stephen Avenue"]
    ELSE [name |-> "East Village"]

Building(id, properties) ==
    [id |-> id, type |-> "Feature", properties |-> properties]

\* response.data.buildings of getBuildingsByZone.  Heights are fixed-point
\* (60 m is 6000000); feet are given to at most one decimal, so that the
\* conversion to metres is exact.
ZoneBuildings(zoneId) ==
    IF zoneId = "stephen_avenue"
    THEN << Building("s1", [height_m |-> 6000000, floors |-> 15,
                            building_type |-> "high_rise",
                            land_use |-> "Commercial Office"]),
            Building("s2", [height_ft |-> 8000000, floors |-> 6,
                            building_type |-> "mid_rise",
                            land_use |-> "Mixed Residential/Retail"]),
            Building("s3", [height |-> "15.2m", floors |-> 3,
                            building_type |-> "low_rise",
                            land_use |-> "Apartment"]),
            Building("s4", [height |-> "11.5ft",
                            building_type |-> "single_story",
                            land_use |-> "Condo"]),
            Building("s5", [height_m |-> 0, height_ft |-> 20000000,
                            floors |-> 0]),
            Building("s6", [height_m |-> 800000, floors |-> 1,
                            building_type |-> "single_story",
                            land_use |-> "Shop"]) >>
    ELSE << Building("e1", [height_m |-> 1200000, floors |-> 2,
                            building_type |-> "low_rise",
                            land_use |-> "Single Family Home"]),
            Building("e2", [height_ft |-> 20000000, floors |-> 20,
                            building_type |-> "high_rise",
                            land_use |-> "Retail Store"]),
            Building("e3", [floors |-> 12,
                            land_use |-> "Multi-family Dwelling"]),
            Building("e4", [height |-> "medium",
                            building_type |-> "low_rise"]) >>

\* The example queries offered by the dashboard.
Examples ==
    { "show buildings over 50 meters tall",
      "show buildings over 100 feet tall",
      "find buildings under 20 meters",
      "highlight high-rise buildings",
      "find buildings with more than 10 floors",
      "show commercial buildings",
      "show residential buildings",
      "show mixed use buildings" }

\* The texts typed into the query input when interpretation is explored.
Queries ==
    Examples \cup
    { "Low Rise offices",
      "tall mid-rise towers",
      "single story homes",
      "Height over 100 FT",
      "buildings below 4 stories",
      "retail under 3 story",
      "lofts with 3 floors",
      "mixed office and house",
      "apartment floors",
      "over 30 metres not feet",
      "mixed houses",
      "homes with less than 3 floors",
      "hello",
      "   " }

\* The texts typed into the query input in a whole session.
SessionQueries ==
    { "find buildings under 20 meters",
      "" }

\* The query texts of the projects of another client.
ImportedTexts == {"imported query", "built after 2000"}

Usernames == {"esther"}

ProjectNames == {"study"}

FetchError == "Failed to load buildings for zone: Network Error"

NoError == "null"

\* ------------------------------------------------------------------------
\* Bounds
\* ------------------------------------------------------------------------

\* Building fetches of one zone in flight at one time.
MaxFetches == 1

\* Save requests issued in one behaviour.
MaxSaves == 1

\* ------------------------------------------------------------------------
\* State
\* ------------------------------------------------------------------------

VARIABLES
    selectedZone,         \* useState(null): zone id or NoZone
    zoneData,             \* useState(null): None or Some(zone info)
    buildings,            \* useState([])
    highlightedBuildings, \* useState([])
    loading,              \* useState(false)
    error,                \* useState(null): NoError or a message
    queryText,            \* useState('')
    interpretedFilter,    \* useState(null): None or Some(filter)
    username,             \* useState('')
    userProjects,         \* useState([])
    currentProject,       \* useState(null): None or Some(project)
    showSaveDialog,       \* QueryPanel useState(false)
    fetches,              \* getBuildingsByZone calls in flight, per zone
    saves,                \* saveProject calls in flight: the project data
    lists,                \* the usernames with a getUserProjects call in flight
    store,                \* the projects the persistence service holds
    saveCount,            \* save requests issued so far
    lastOp                \* the handler that ran last

vars == << selectedZone, zoneData, buildings, highlightedBuildings, loading,
           error, queryText, interpretedFilter, username, userProjects,
           currentProject, showSaveDialog, fetches, saves, lists, store,
           saveCount, lastOp >>

zoneVars == << selectedZone, zoneData, buildings >>

queryVars == << queryText, interpretedFilter, highlightedBuildings >>

userVars == << username, userProjects, currentProject >>

ioVars == << fetches, saves, lists, store, saveCount >>

Init ==
    /\ selectedZone = NoZone
    /\ zoneData = None
    /\ buildings = << >>
    /\ highlightedBuildings = << >>
    /\ loading = FALSE
    /\ error = NoError
    /\ queryText = ""
    /\ interpretedFilter = None
    /\ username = ""
    /\ userProjects = << >>
    /\ currentProject = None
    /\ showSaveDialog = FALSE
    /\ fetches = [z \in ZoneIds |-> 0]
    /\ saves = << >>
    /\ lists = {}
    /\ store = << >>
    /\ saveCount = 0
    /\ lastOp = "init"

\* ------------------------------------------------------------------------
\* Zone selection (handleZoneSelect and the responses of getBuildingsByZone)
\* ------------------------------------------------------------------------

\* handleZoneSelect(zoneId, zoneInfo) up to its await.
handleZoneSelect(zoneId) ==
    /\ fetches[zoneId] < MaxFetches
    /\ loading' = TRUE
    /\ error' = NoError
    /\ buildings' = << >>
    /\ highlightedBuildings' = << >>
    /\ fetches' = [fetches EXCEPT ![zoneId] = @ + 1]
    /\ lastOp' = "zoneSelect"
    /\ UNCHANGED << selectedZone, zoneData, queryText, interpretedFilter,
                    userVars, showSaveDialog, saves, lists, store, saveCount >>

\* handleZoneSelect(null, null): the Clear Selection button, shown while a
\* zone is selected.
handleZoneClear ==
    /\ selectedZone # NoZone
    /\ selectedZone' = NoZone
    /\ zoneData' = None
    /\ buildings' = << >>
    /\ highlightedBuildings' = << >>
    /\ lastOp' = "zoneClear"
    /\ UNCHANGED << loading, error, queryText, interpretedFilter, userVars,
                    showSaveDialog, ioVars >>

\* The fetch for zoneId resolves: the rest of the try block, then finally.
FetchOk(zoneId) ==
    /\ fetches[zoneId] > 0
    /\ fetches' = [fetches EXCEPT ![zoneId] = @ - 1]
    /\ selectedZone' = zoneId
    /\ zoneData' = Some(ZoneInfo(zoneId))
    /\ buildings' = ZoneBuildings(zoneId)
    /\ loading' = FALSE
    /\ lastOp' = "fetchOk"
    /\ UNCHANGED << highlightedBuildings, error, queryText, interpretedFilter,
                    userVars, showSaveDialog, saves, lists, store, saveCount >>

\* The fetch for zoneId rejects: catch, then finally.
FetchFail(zoneId) ==
    /\ fetches[zoneId] > 0
    /\ fetches' = [fetches EXCEPT ![zoneId] = @ - 1]
    /\ error' = FetchError
    /\ loading' = FALSE
    /\ lastOp' = "fetchFail"
    /\ UNCHANGED << zoneVars, highlightedBuildings, queryText,
                    interpretedFilter, userVars, showSaveDialog, saves, lists,
                    store, saveCount >>

\* The Dismiss button of the error overlay.
DismissError ==
    /\ error # NoError
    /\ error' = NoError
    /\ lastOp' = "dismiss"
    /\ UNCHANGED << zoneVars, queryVars, loading, userVars, showSaveDialog,
                    ioVars >>

\* ------------------------------------------------------------------------
\* Query panel
\* ------------------------------------------------------------------------

\* setQueryText(text): typing (the input is disabled while loading) or a
\* click on an example (never disabled).
TypeQuery(text) ==
    /\ ~loading \/ text \in Examples
    /\ queryText' = text
    /\ lastOp' = "type"
    /\ UNCHANGED << zoneVars, highlightedBuildings, interpretedFilter, loading,
                    error, userVars, showSaveDialog, ioVars >>

\* What handleQuerySubmit computes from the buildings and the query text:
\* the interpreted filter and the filtered buildings.
Interpret(buildingList, text) ==
    LET query == toLowerCase(text)
    IN  [ filter |-> InterpretFilter(query),
          filteredBuildings |-> InterpretBuildings(buildingList, query) ]

\* The building collections and texts of the model, and Interpret on each
\* pair of them, computed once.
Collections == { ZoneBuildings(zoneId) : zoneId \in ZoneIds } \cup { << >> }

KnownTexts == Queries \cup SessionQueries \cup ImportedTexts

InterpretMemo ==
    { [ buildings |-> c, text |-> t, result |-> Interpret(c, t) ] :
        c \in Collections, t \in KnownTexts }

Interpreted(buildingList, text) ==
    IF \E m \in InterpretMemo : m.text = text /\ m.buildings = buildingList
    THEN (CHOOSE m \in InterpretMemo :
              m.text = text /\ m.buildings = buildingList).result
    ELSE Interpret(buildingList, text)

\* handleQuerySubmit that filters the highlighted buildings when there are
\* some, and the buildings otherwise.
SubmitRefinesHighlighted ==
    /\ ~loading
    /\ lastOp' = "submit"
    /\ IF trim(queryText) = ""
       THEN UNCHANGED << highlightedBuildings, interpretedFilter, loading >>
       ELSE LET searched == IF highlightedBuildings # << >>
                            THEN highlightedBuildings ELSE buildings
            IN  /\ highlightedBuildings' =
                       Interpreted(searched, queryText).filteredBuildings
                /\ interpretedFilter' = Interpreted(searched, queryText).filter
                /\ loading' = FALSE
    /\ UNCHANGED << zoneVars, queryText, error, userVars, showSaveDialog,
                    ioVars >>

\* handleQuerySubmit, reached by Enter or the Query button; both are dead
\* while loading.  The handler has no await: setLoading(true) and the
\* finally's setLoading(false) fall into one update.
handleQuerySubmit ==
    /\ ~loading
    /\ lastOp' = "submit"
    /\ IF trim(queryText) = ""
       THEN UNCHANGED << highlightedBuildings, interpretedFilter, loading >>
       ELSE /\ highlightedBuildings' =
                   Interpreted(buildings, queryText).filteredBuildings
            /\ interpretedFilter' = Interpreted(buildings, queryText).filter
            /\ loading' = FALSE
    /\ UNCHANGED << zoneVars, queryText, error, userVars, showSaveDialog,
                    ioVars >>

\* handleClearQuery without setHighlightedBuildings([]).
ClearKeepsHighlighted ==
    /\ interpretedFilter # None
    /\ ~loading
    /\ queryText' = ""
    /\ interpretedFilter' = None
    /\ lastOp' = "clear"
    /\ UNCHANGED << zoneVars, highlightedBuildings, loading, error, userVars,
                    showSaveDialog, ioVars >>

\* handleClearQuery: the Clear Filter button, shown with the interpreted
\* filter and disabled while loading.
handleClearQuery ==
    /\ interpretedFilter # None
    /\ ~loading
    /\ queryText' = ""
    /\ interpretedFilter' = None
    /\ highlightedBuildings' = << >>
    /\ lastOp' = "clear"
    /\ UNCHANGED << zoneVars, loading, error, userVars, showSaveDialog,
                    ioVars >>

\* canSave={!!username && buildings.length > 0}
canSave == username # "" /\ Len(buildings) > 0

\* The Save Project button of the filter display opens the dialog.
OpenSaveDialog ==
    /\ interpretedFilter # None
    /\ canSave
    /\ ~loading
    /\ ~showSaveDialog
    /\ showSaveDialog' = TRUE
    /\ lastOp' = "openDialog"
    /\ UNCHANGED << zoneVars, queryVars, loading, error, userVars, ioVars >>

CancelSaveDialog ==
    /\ showSaveDialog
    /\ showSaveDialog' = FALSE
    /\ lastOp' = "cancelDialog"
    /\ UNCHANGED << zoneVars, queryVars, loading, error, userVars, ioVars >>

\* ------------------------------------------------------------------------
\* Projects
\* ------------------------------------------------------------------------

\* highlightedBuildings.map(b => ({ id: b.id, properties: b.properties }))
QueryResults(highlighted) ==
    [i \in 1..Len(highlighted) |->
        [id |-> highlighted[i].id, properties |-> highlighted[i].properties]]

\* projectData with query_results mapped from buildings in place of
\* highlightedBuildings.
ProjectDataOfAll(user, projectName, zone, zoneInfo, bs, highlighted, filter, text) ==
    LET area == IF zoneInfo # None THEN zoneInfo[1].name ELSE zone
    IN  [ username |-> user,
          name |-> IF projectName # "" THEN projectName
                   ELSE "Analysis of " \o area,
          description |-> "LLM analysis of buildings in " \o area,
          target_area |-> zone,
          total_buildings |-> Len(bs),
          highlighted_count |-> Len(highlighted),
          query_results |-> QueryResults(bs),
          filters |-> IF filter # None THEN << filter[1] >> ELSE << >>,
          query_text |-> text ]

\* projectData of handleSaveProject, from the state its closure holds.
ProjectData(user, projectName, zone, zoneInfo, bs, highlighted, filter, text) ==
    LET area == IF zoneInfo # None THEN zoneInfo[1].name ELSE zone
    IN  [ username |-> user,
          name |-> IF projectName # "" THEN projectName
                   ELSE "Analysis of " \o area,
          description |-> "LLM analysis of buildings in " \o area,
          target_area |-> zone,
          total_buildings |-> Len(bs),
          highlighted_count |-> Len(highlighted),
          query_results |-> QueryResults(highlighted),
          filters |-> IF filter # None THEN << filter[1] >> ELSE << >>,
          query_text |-> text ]

\* The confirm button of the save dialog: onSave(projectName.trim()), i.e.
\* handleSaveProject up to its await, and the dialog closes.
handleSaveProject(projectName) ==
    /\ showSaveDialog
    /\ showSaveDialog' = FALSE
    /\ lastOp' = "save"
    /\ IF username = "" \/ selectedZone = NoZone
       THEN UNCHANGED << saves, saveCount >>
       ELSE /\ saveCount < MaxSaves
            /\ saves' = Append(saves,
                   ProjectData(username, projectName, selectedZone, zoneData,
                               buildings, highlightedBuildings,
                               interpretedFilter, queryText))
            /\ saveCount' = saveCount + 1
    /\ UNCHANGED << zoneVars, queryVars, loading, error, userVars, fetches,
                    lists, store >>

Remove(seq, i) == SubSeq(seq, 1, i - 1) \o SubSeq(seq, i + 1, Len(seq))

\* The record the persistence service keeps for a saved project.
Stored(p, id) ==
    [ id |-> id, username |-> p.username, name |-> p.name,
      description |-> p.description, target_area |-> p.target_area,
      total_buildings |-> p.total_buildings,
      highlighted_count |-> p.highlighted_count,
      query_results |-> p.query_results, filters |-> p.filters,
      query_text |-> p.query_text ]

\* The project an earlier session of user left in the store: the zone was
\* loaded, text was submitted and the result was saved.
EarlierProject(user, zoneId, text) ==
    Stored(ProjectData(user, "earlier", zoneId, Some(ZoneInfo(zoneId)),
                       ZoneBuildings(zoneId),
                       Interpreted(ZoneBuildings(zoneId), text).filteredBuildings,
                       Interpreted(ZoneBuildings(zoneId), text).filter, text),
           1)

\* A project the service holds from another client: it has no filters.
ProjectWithoutFilters(user) ==
    [ id |-> 1, username |-> user, name |-> "imported",
      description |-> "", target_area |-> "east_village",
      total_buildings |-> 0, highlighted_count |-> 0,
      query_results |-> << >>, query_text |-> "imported query" ]

\* A project the service holds from another client: its filter is on an
\* attribute the dashboard does not know.
ProjectOfUnknownAttribute(user) ==
    [ id |-> 2, username |-> user, name |-> "imported",
      description |-> "", target_area |-> "east_village",
      total_buildings |-> 0, highlighted_count |-> 0,
      query_results |-> << >>,
      filters |-> << [ attribute |-> "year_built", operator |-> ">",
                       value |-> 2000,
                       description |-> "Buildings built after 2000" ] >>,
      query_text |-> "built after 2000" ]

\* The stores a session may start from: empty, or one project of an earlier
\* session.
EarlierStores ==
    { << >> } \cup
    { << EarlierProject(user, "east_village", text) >> :
        user \in Usernames, text \in {"find buildings under 20 meters"} }

\* The stores that hold the projects of another client.
ImportedStores ==
    { << ProjectWithoutFilters(user), ProjectOfUnknownAttribute(user),
         EarlierProject(user, "east_village", "hello"),
         EarlierProject(user, "east_village", "show commercial buildings") >> :
        user \in Usernames }

\* saveProject resolves, without setHighlightedBuildings([]) after it.
SaveOkKeepsHighlighted(i) ==
    /\ i \in 1..Len(saves)
    /\ store' = Append(store, Stored(saves[i], Len(store) + 1))
    /\ lists' = lists \cup {saves[i].username}
    /\ saves' = Remove(saves, i)
    /\ queryText' = ""
    /\ interpretedFilter' = None
    /\ lastOp' = "saveOk"
    /\ UNCHANGED << zoneVars, highlightedBuildings, loading, error, userVars,
                    showSaveDialog, fetches, saveCount >>

\* saveProject resolves: loadUserProjects() is called for the username the
\* handler closed over, and the query is cleared.  A list request issued
\* while one for the same username is in flight is answered with it.
SaveOk(i) ==
    /\ i \in 1..Len(saves)
    /\ store' = Append(store, Stored(saves[i], Len(store) + 1))
    /\ lists' = lists \cup {saves[i].username}
    /\ saves' = Remove(saves, i)
    /\ queryText' = ""
    /\ interpretedFilter' = None
    /\ highlightedBuildings' = << >>
    /\ lastOp' = "saveOk"
    /\ UNCHANGED << zoneVars, loading, error, userVars, showSaveDialog,
                    fetches, saveCount >>

\* saveProject rejects, with the query cleared in the catch.
SaveFailClears(i) ==
    /\ i \in 1..Len(saves)
    /\ saves' = Remove(saves, i)
    /\ queryText' = ""
    /\ interpretedFilter' = None
    /\ highlightedBuildings' = << >>
    /\ lastOp' = "saveFail"
    /\ UNCHANGED << zoneVars, loading, error, userVars, showSaveDialog,
                    fetches, lists, store, saveCount >>

\* saveProject rejects: the catch only logs.
SaveFail(i) ==
    /\ i \in 1..Len(saves)
    /\ saves' = Remove(saves, i)
    /\ lastOp' = "saveFail"
    /\ UNCHANGED << zoneVars, queryVars, loading, error, userVars,
                    showSaveDialog, fetches, lists, store, saveCount >>

\* setUsername(tempUsername), and the effect that loads the user's projects.
SetUsername(name) ==
    /\ username = ""
    /\ username' = name
    /\ lists' = lists \cup {name}
    /\ lastOp' = "setUsername"
    /\ UNCHANGED << zoneVars, queryVars, loading, error, userProjects,
                    currentProject, showSaveDialog, fetches, saves, store,
                    saveCount >>

\* The Change button: setUsername('').
ChangeUsername ==
    /\ username # ""
    /\ username' = ""
    /\ lastOp' = "changeUsername"
    /\ UNCHANGED << zoneVars, queryVars, loading, error, userProjects,
                    currentProject, showSaveDialog, ioVars >>

\* getUserProjects resolves with the projects stored for the username.
ListOk(name) ==
    /\ name \in lists
    /\ userProjects' = SelectSeq(store, LAMBDA p : p.username = name)
    /\ lists' = lists \ {name}
    /\ lastOp' = "listOk"
    /\ UNCHANGED << zoneVars, queryVars, loading, error, username,
                    currentProject, showSaveDialog, fetches, saves, store,
                    saveCount >>

\* getUserProjects rejects: the catch only logs.
ListFail(name) ==
    /\ name \in lists
    /\ lists' = lists \ {name}
    /\ lastOp' = "listFail"
    /\ UNCHANGED << zoneVars, queryVars, loading, error, userVars,
                    showSaveDialog, fetches, saves, store, saveCount >>

\* The highlighted subset taken from the saved snapshot: the loaded
\* buildings whose id is among project.query_results.
SnapshotBuildings(buildingList, project) ==
    SelectSeq(buildingList,
              LAMBDA b : \E i \in 1..Len(project.query_results) :
                             project.query_results[i].id = b.id)

\* project.filters with `project.filters && project.filters.length > 0` in
\* mind: the empty sequence when the project has no filters.
Filters(project) ==
    IF "filters" \in DOMAIN project THEN project.filters ELSE << >>

\* What handleLoadProject leaves as the highlighted subset for savedFilter.
LoadedBuildings(buildingList, project) ==
    RestoreBuildings(buildingList, project.filters[1])

\* handleLoadProject that resets the query state for a project without
\* filters.
LoadResetsWithoutFilters(project) ==
    /\ selectedZone # NoZone
    /\ username # ""
    /\ currentProject' = Some(project)
    /\ lastOp' = "load"
    /\ IF Len(Filters(project)) > 0
       THEN /\ interpretedFilter' = Some(project.filters[1])
            /\ highlightedBuildings' = LoadedBuildings(buildings, project)
            /\ queryText' = IF project.query_text # ""
                            THEN project.query_text ELSE queryText
       ELSE /\ interpretedFilter' = None
            /\ highlightedBuildings' = << >>
            /\ queryText' = project.query_text
    /\ UNCHANGED << zoneVars, loading, error, username, userProjects,
                    showSaveDialog, ioVars >>

\* handleLoadProject(project): a click on an entry of the project list, which
\* is shown while a zone is selected and a username is set.
handleLoadProject(project) ==
    /\ selectedZone # NoZone
    /\ username # ""
    /\ currentProject' = Some(project)
    /\ lastOp' = "load"
    /\ IF Len(Filters(project)) > 0
       THEN /\ interpretedFilter' = Some(project.filters[1])
            /\ highlightedBuildings' = LoadedBuildings(buildings, project)
            /\ queryText' = IF project.query_text # ""
                            THEN project.query_text ELSE queryText
       ELSE UNCHANGED queryVars
    /\ UNCHANGED << zoneVars, loading, error, username, userProjects,
                    showSaveDialog, ioVars >>

\* ------------------------------------------------------------------------
\* Specifications
\* ------------------------------------------------------------------------

Next ==
    \/ \E zoneId \in ZoneIds : handleZoneSelect(zoneId)
    \/ handleZoneClear
    \/ \E zoneId \in ZoneIds : FetchOk(zoneId)
    \/ \E zoneId \in ZoneIds : FetchFail(zoneId)
    \/ DismissError
    \/ \E text \in SessionQueries : TypeQuery(text)
    \/ handleQuerySubmit
    \/ handleClearQuery
    \/ OpenSaveDialog
    \/ CancelSaveDialog
    \/ \E projectName \in ProjectNames : handleSaveProject(projectName)
    \/ \E i \in 1..Len(saves) : SaveOk(i)
    \/ \E i \in 1..Len(saves) : SaveFail(i)
    \/ \E name \in Usernames : SetUsername(name)
    \/ ChangeUsername
    \/ \E name \in Usernames : ListOk(name)
    \/ \E name \in Usernames : ListFail(name)
    \/ \E i \in 1..Len(userProjects) : handleLoadProject(userProjects[i])

\* The whole dashboard.
Spec == Init /\ [][Next]_vars

\* Interpretation alone: a zone's buildings are loaded, and every query of
\* Queries is typed, submitted and cleared.
InitInterp ==
    /\ selectedZone \in ZoneIds
    /\ zoneData = Some(ZoneInfo(selectedZone))
    /\ buildings = ZoneBuildings(selectedZone)
    /\ highlightedBuildings = << >>
    /\ loading = FALSE
    /\ error = NoError
    /\ queryText = ""
    /\ interpretedFilter = None
    /\ username = ""
    /\ userProjects = << >>
    /\ currentProject = None
    /\ showSaveDialog = FALSE
    /\ fetches = [z \in ZoneIds |-> 0]
    /\ saves = << >>
    /\ lists = {}
    /\ store = << >>
    /\ saveCount = 0
    /\ lastOp = "init"

NextInterp ==
    \/ \E text \in Queries : TypeQuery(text)
    \/ handleQuerySubmit
    \/ handleClearQuery

SpecInterp == InitInterp /\ [][NextInterp]_vars

\* The project codec: a user is named, the list of projects is requested
\* and a zone's buildings are loaded; queries are interpreted and projects
\* are saved, listed and restored.
InitProject ==
    /\ selectedZone \in ZoneIds
    /\ zoneData = Some(ZoneInfo(selectedZone))
    /\ buildings = ZoneBuildings(selectedZone)
    /\ highlightedBuildings = << >>
    /\ loading = FALSE
    /\ error = NoError
    /\ queryText = ""
    /\ interpretedFilter = None
    /\ username \in Usernames
    /\ userProjects = << >>
    /\ currentProject = None
    /\ showSaveDialog = FALSE
    /\ fetches = [z \in ZoneIds |-> 0]
    /\ saves = << >>
    /\ lists = {username}
    /\ store \in EarlierStores
    /\ saveCount = 0
    /\ lastOp = "init"

NextProject ==
    \/ \E text \in SessionQueries : TypeQuery(text)
    \/ handleQuerySubmit
    \/ handleClearQuery
    \/ OpenSaveDialog
    \/ CancelSaveDialog
    \/ \E projectName \in ProjectNames : handleSaveProject(projectName)
    \/ \E i \in 1..Len(saves) : SaveOk(i)
    \/ \E i \in 1..Len(saves) : SaveFail(i)
    \/ \E name \in Usernames : ListOk(name)
    \/ \E name \in Usernames : ListFail(name)
    \/ \E i \in 1..Len(userProjects) : handleLoadProject(userProjects[i])

SpecProject == InitProject /\ [][NextProject]_vars

\* Restoring: a user is named, a zone's buildings are loaded and the store
\* holds projects of an earlier session or of another client; queries are
\* interpreted and projects are listed and restored.
InitRestore ==
    /\ selectedZone \in ZoneIds
    /\ zoneData = Some(ZoneInfo(selectedZone))
    /\ buildings = ZoneBuildings(selectedZone)
    /\ highlightedBuildings = << >>
    /\ loading = FALSE
    /\ error = NoError
    /\ queryText = ""
    /\ interpretedFilter = None
    /\ username \in Usernames
    /\ userProjects = << >>
    /\ currentProject = None
    /\ showSaveDialog = FALSE
    /\ fetches = [z \in ZoneIds |-> 0]
    /\ saves = << >>
    /\ lists = {username}
    /\ store \in (EarlierStores \cup ImportedStores)
    /\ saveCount = 0
    /\ lastOp = "init"

NextRestore ==
    \/ \E text \in SessionQueries : TypeQuery(text)
    \/ handleQuerySubmit
    \/ handleClearQuery
    \/ \E name \in Usernames : ListOk(name)
    \/ \E name \in Usernames : ListFail(name)
    \/ \E i \in 1..Len(userProjects) : handleLoadProject(userProjects[i])

SpecRestore == InitRestore /\ [][NextRestore]_vars

\* Zones and queries: from the fresh dashboard, zones are selected and their
\* buildings fetched while queries are typed, submitted and cleared.
NextZone ==
    \/ \E zoneId \in ZoneIds : handleZoneSelect(zoneId)
    \/ handleZoneClear
    \/ \E zoneId \in ZoneIds : FetchOk(zoneId)
    \/ \E zoneId \in ZoneIds : FetchFail(zoneId)
    \/ DismissError
    \/ \E text \in SessionQueries : TypeQuery(text)
    \/ handleQuerySubmit
    \/ handleClearQuery

SpecZone == Init /\ [][NextZone]_vars

\* A session: a user is named, the user's projects of an earlier session are
\* listed and the buildings of stephen_avenue are loaded; a query is typed,
\* submitted and cleared, projects are saved and restored and zones are
\* selected.
InitSession ==
    /\ selectedZone = "stephen_avenue"
    /\ zoneData = Some(ZoneInfo(selectedZone))
    /\ buildings = ZoneBuildings(selectedZone)
    /\ highlightedBuildings = << >>
    /\ loading = FALSE
    /\ error = NoError
    /\ queryText = ""
    /\ interpretedFilter = None
    /\ username \in Usernames
    /\ store \in (EarlierStores \ { << >> })
    /\ userProjects = store
    /\ currentProject = None
    /\ showSaveDialog = FALSE
    /\ fetches = [z \in ZoneIds |-> 0]
    /\ saves = << >>
    /\ lists = {}
    /\ saveCount = 0
    /\ lastOp = "init"

NextSession ==
    \/ \E zoneId \in ZoneIds : handleZoneSelect(zoneId)
    \/ \E zoneId \in ZoneIds : FetchOk(zoneId)
    \/ \E text \in SessionQueries \ {""} : TypeQuery(text)
    \/ handleQuerySubmit
    \/ handleClearQuery
    \/ OpenSaveDialog
    \/ \E projectName \in ProjectNames : handleSaveProject(projectName)
    \/ \E i \in 1..Len(saves) : SaveOk(i)
    \/ \E i \in 1..Len(userProjects) : handleLoadProject(userProjects[i])

SpecSession == InitSession /\ [][NextSession]_vars

\* Saving: as the project codec, and the username is changed and the zone
\* selection is cleared, also while the save dialog is open.
NextSave ==
    \/ NextProject
    \/ \E name \in Usernames : SetUsername(name)
    \/ ChangeUsername
    \/ handleZoneClear

SpecSave == InitProject /\ [][NextSave]_vars

\* ------------------------------------------------------------------------
\* Properties
\* ------------------------------------------------------------------------

Range(seq) == { seq[i] : i \in 1..Len(seq) }

\* The query text as the classifier sees it.
Lowered == toLowerCase(queryText)

\* C1.  Round trip: when a project that holds the filter F and the highlighted
\* set H which interpreting its query_text yields on the loaded collection,
\* with F.attribute one of height_m, floors, building_type, is restored
\* against that same collection, the highlighted subset is H again.
RoundTripRestoresHighlighted ==
    (lastOp = "load" /\ currentProject # None) =>
        LET project == currentProject[1]
            yielded == Interpreted(buildings, project.query_text)
        IN  ( /\ Len(Filters(project)) = 1
              /\ yielded.filter = Some(project.filters[1])
              /\ project.filters[1].attribute
                    \in {"height_m", "floors", "building_type"}
              /\ project.target_area = selectedZone
              /\ project.query_results
                    = QueryResults(yielded.filteredBuildings) )
            => highlightedBuildings = yielded.filteredBuildings

\* C2.  After a submit of a query that contains 'tall' and no low-rise or
\* mid-rise keyword, the filter is {building_type, = (eq), high_rise}; and
\* after a submit of any query that contains 'tall', the filter is no
\* height_m filter.
TallMeansHighRise ==
    (lastOp = "submit" /\ includes(Lowered, "tall")) =>
        /\ interpretedFilter # None
        /\ interpretedFilter[1].attribute # "height_m"
        /\ ~IncludesAny(Lowered, {"low rise", "low-rise", "mid rise",
                                  "mid-rise", "medium rise"})
            => /\ interpretedFilter[1].attribute = "building_type"
               /\ interpretedFilter[1].operator = "="
               /\ interpretedFilter[1].value = "high_rise"

\* A query with 'tall' and a height in feet was submitted and is a
\* high_rise filter.
TallWithFeetSubmitted ==
    /\ lastOp = "submit"
    /\ queryText = "show buildings over 100 feet tall"
    /\ interpretedFilter # None
    /\ interpretedFilter[1].value = "high_rise"

\* The ten rules in their order, each with its keywords; the tenth has none.
OrderedRules ==
    << [intent |-> "low_rise", words |-> {"low rise", "low-rise"}],
       [intent |-> "mid_rise",
        words |-> {"mid rise", "mid-rise", "medium rise"}],
       [intent |-> "high_rise", words |-> {"high rise", "high-rise", "tall"}],
       [intent |-> "single_story",
        words |-> {"single story", "single-story", "one story"}],
       [intent |-> "height",
        words |-> {"height", "tall", "meters", "metres", "feet", "ft"}],
       [intent |-> "floors", words |-> {"floor", "floors", "story", "stories"}],
       [intent |-> "commercial",
        words |-> {"commercial", "business", "office", "retail"}],
       [intent |-> "residential",
        words |-> {"residential", "home", "house", "apartment"}],
       [intent |-> "mixed_use", words |-> {"mixed use", "mixed-use", "mixed"}],
       [intent |-> "none", words |-> {""}] >>

RuleMatches(i, text) == IncludesAny(text, OrderedRules[i].words)

\* The intent of the first rule of OrderedRules that matches text.
FirstMatch(text) ==
    OrderedRules[CHOOSE i \in 1..Len(OrderedRules) :
                    /\ RuleMatches(i, text)
                    /\ \A j \in 1..(i - 1) : ~RuleMatches(j, text)].intent

\* The intent a filter stands for.
IntentOf(filter) ==
    IF filter = None THEN "none"
    ELSE IF filter[1].attribute = "height_m" THEN "height"
    ELSE IF filter[1].attribute = "floors" THEN "floors"
    ELSE filter[1].value

\* C3.  After a submit of a query that is not blank, the filter is that of
\* the first of the ten ordered rules with a keyword contained in the
\* lower-cased query.
FirstMatchingRuleWins ==
    (lastOp = "submit" /\ trim(queryText) # "") =>
        IntentOf(interpretedFilter) = FirstMatch(Lowered)

\* A query with keywords of three rules was submitted and took the first.
SeveralRulesSubmitted ==
    /\ lastOp = "submit"
    /\ queryText = "mixed office and house"
    /\ RuleMatches(7, Lowered) /\ RuleMatches(8, Lowered)
    /\ RuleMatches(9, Lowered)
    /\ IntentOf(interpretedFilter) = "commercial"

\* The lower-cased query holds no keyword of the nine keyword rules.
NoRuleMatches == \A i \in 1..9 : ~RuleMatches(i, Lowered)

\* C4, as stated: after a submit of a query that is not the empty string and
\* matches none of the nine keyword rules, the filter is null and nothing is
\* highlighted.
UnmatchedNonEmptyResets ==
    (lastOp = "submit" /\ queryText # "" /\ NoRuleMatches) =>
        /\ interpretedFilter = None
        /\ highlightedBuildings = << >>
        /\ error = NoError

\* C4.  After a submit of a query that is not empty once trimmed of white
\* space and matches none of the nine keyword rules, there is no error, the
\* filter is null and nothing is highlighted, whatever was set before.
UnmatchedTrimmedResets ==
    (lastOp = "submit" /\ trim(queryText) # "" /\ NoRuleMatches) =>
        /\ interpretedFilter = None
        /\ highlightedBuildings = << >>
        /\ error = NoError

\* A query without a keyword was submitted on a loaded collection.
UnmatchedSubmitted ==
    /\ lastOp = "submit"
    /\ queryText = "hello"
    /\ NoRuleMatches
    /\ buildings # << >>
    /\ interpretedFilter = None

\* C5.  After handleClearQuery the filter is null, nothing is highlighted
\* and the query text is empty, whatever project and collection are loaded.
ClearResets ==
    lastOp = "clear" =>
        /\ interpretedFilter = None
        /\ highlightedBuildings = << >>
        /\ queryText = ""

\* The query was cleared with a collection and a restored project loaded.
ClearedWithProjectLoaded ==
    /\ lastOp = "clear"
    /\ currentProject # None
    /\ Len(Filters(currentProject[1])) > 0
    /\ buildings # << >>

\* project with another snapshot, count and target area.
WithoutSnapshot(project) ==
    [project EXCEPT !.query_results = << >>, !.highlighted_count = 0,
                    !.target_area = NoZone]

\* C6.  After handleLoadProject of a project with a filter, the highlighted
\* subset is the loaded buildings that filters[0] keeps, in their order: a
\* subset of the loaded collection, and the same for a project that differs
\* in query_results, highlighted_count and target_area.
RestoreRecomputesOnLoaded ==
    (lastOp = "load" /\ currentProject # None
        /\ Len(Filters(currentProject[1])) > 0) =>
        LET project == currentProject[1]
        IN  /\ highlightedBuildings =
                   SelectSeq(buildings,
                             LAMBDA b : RestoreKeeps(b, project.filters[1]))
            /\ Range(highlightedBuildings) \subseteq Range(buildings)
            /\ highlightedBuildings =
                   LoadedBuildings(buildings, WithoutSnapshot(project))

\* A project saved in another zone was restored: its snapshot is not what
\* is highlighted.
RestoredInAnotherZone ==
    /\ lastOp = "load"
    /\ currentProject # None
    /\ Len(Filters(currentProject[1])) > 0
    /\ currentProject[1].target_area # selectedZone
    /\ highlightedBuildings # << >>
    /\ QueryResults(highlightedBuildings) # currentProject[1].query_results

\* The loaded buildings whose lower-cased land_use holds one of words.
WithLandUseOf(words) ==
    SelectSeq(buildings,
              LAMBDA b : /\ Has(b, "land_use")
                         /\ IncludesAny(toLowerCase(b.properties.land_use),
                                        words))

\* C7, as stated: after a submit of 'show residential buildings' the
\* highlighted buildings are exactly those whose lower-cased land_use holds
\* residential, home, house or apartment.
ResidentialIsFourWords ==
    (lastOp = "submit" /\ queryText = "show residential buildings") =>
        highlightedBuildings =
            WithLandUseOf({"residential", "home", "house", "apartment"})

\* C7.  After a submit of 'show residential buildings' the highlighted
\* buildings are exactly those whose lower-cased land_use holds residential,
\* home, house, apartment, condo or dwelling; a building with land_use
\* 'Mixed Residential/Retail' is among them.
ResidentialIsSixWords ==
    (lastOp = "submit" /\ queryText = "show residential buildings") =>
        /\ highlightedBuildings =
               WithLandUseOf({"residential", "home", "house", "apartment",
                              "condo", "dwelling"})
        /\ \A i \in 1..Len(buildings) :
               ( /\ Has(buildings[i], "land_use")
                 /\ buildings[i].properties.land_use
                        = "Mixed Residential/Retail" )
               => buildings[i] \in Range(highlightedBuildings)

\* 'show residential buildings' was submitted on a collection with a
\* 'Mixed Residential/Retail' building, which is highlighted.
ResidentialSubmitted ==
    /\ lastOp = "submit"
    /\ queryText = "show residential buildings"
    /\ \E i \in 1..Len(highlightedBuildings) :
           highlightedBuildings[i].properties.land_use
               = "Mixed Residential/Retail"

\* C8.  After a submit that yields a floors filter, its operator is a
\* direction and its value is the integer before 'floor' or 'story' in the
\* query, 5 when there is none; 'find buildings with more than 10 floors'
\* yields floors > (gt) 10.
FloorsValueFromPattern ==
    (lastOp = "submit" /\ trim(queryText) # "") =>
        /\ (interpretedFilter # None
                /\ interpretedFilter[1].attribute = "floors") =>
               /\ interpretedFilter[1].operator \in {">", "<"}
               /\ interpretedFilter[1].value =
                      IF DigitsBefore(Lowered, {"floor", "story"}) = None
                      THEN 5
                      ELSE parseInt(DigitsBefore(Lowered,
                                                 {"floor", "story"})[1])
        /\ FirstMatch(Lowered) = "floors" =>
               /\ interpretedFilter # None
               /\ interpretedFilter[1].attribute = "floors"
        /\ queryText = "find buildings with more than 10 floors" =>
               /\ interpretedFilter # None
               /\ interpretedFilter[1].attribute = "floors"
               /\ interpretedFilter[1].operator = ">"
               /\ interpretedFilter[1].value = 10

\* A floors query without the pattern was submitted and took the default.
FloorsDefaultSubmitted ==
    /\ lastOp = "submit"
    /\ queryText = "buildings below 4 stories"
    /\ DigitsBefore(Lowered, {"floor", "story"}) = None
    /\ interpretedFilter # None
    /\ interpretedFilter[1].attribute = "floors"
    /\ interpretedFilter[1].value = 5

\* b has nothing the attribute of a filter can be resolved from.
Unresolved(b, attribute) ==
    IF attribute = "floors" THEN ~Has(b, "floors")
    ELSE IF attribute = "building_type" THEN ~Has(b, "building_type")
    ELSE IF attribute = "height_m"
    THEN /\ ~Has(b, "height_m")
         /\ ~Has(b, "height_ft")
         /\ \/ ~Has(b, "height")
            \/ HeightOfString(toLowerCase(b.properties.height)) = None
    ELSE FALSE

\* C9.  After a submit that yields a filter, no highlighted building is one
\* whose attribute of the filter is unresolved, there is no error, and the
\* highlighted buildings are those the same query selects from the
\* collection without its unresolved buildings.
UnresolvedNeverHighlighted ==
    (lastOp = "submit" /\ trim(queryText) # "" /\ interpretedFilter # None) =>
        LET attribute == interpretedFilter[1].attribute
            resolved == SelectSeq(buildings,
                                  LAMBDA b : ~Unresolved(b, attribute))
        IN  /\ \A i \in 1..Len(highlightedBuildings) :
                   ~Unresolved(highlightedBuildings[i], attribute)
            /\ error = NoError
            /\ highlightedBuildings =
                   Interpret(resolved, queryText).filteredBuildings

\* A height filter was submitted on a collection with buildings of
\* unresolved height, and others are highlighted.
HeightSubmittedWithUnresolved ==
    /\ lastOp = "submit"
    /\ interpretedFilter # None
    /\ interpretedFilter[1].attribute = "height_m"
    /\ interpretedFilter[1].operator = "<"
    /\ \E i \in 1..Len(buildings) : Unresolved(buildings[i], "height_m")
    /\ highlightedBuildings # << >>

\* C10.  The project a save hands to the persistence service has filters =
\* [the filter] when one is set and [] otherwise, query_results = id and
\* properties of the highlighted buildings of that moment in their order,
\* highlighted_count = the length of query_results, and query_text = the
\* query text of that moment.
SaveSnapshotsState ==
    [][ (lastOp' = "save" /\ Len(saves') = Len(saves) + 1) =>
            LET project == saves'[Len(saves')]
            IN  /\ project.filters =
                       (IF interpretedFilter # None
                        THEN << interpretedFilter[1] >> ELSE << >>)
                /\ Len(project.query_results) = Len(highlightedBuildings)
                /\ \A i \in 1..Len(highlightedBuildings) :
                       project.query_results[i] =
                           [id |-> highlightedBuildings[i].id,
                            properties |->
                                highlightedBuildings[i].properties]
                /\ project.highlighted_count = Len(project.query_results)
                /\ project.query_text = queryText ]_vars

\* A save of a filter with highlighted buildings is in flight.
SaveInFlight ==
    /\ lastOp = "save"
    /\ Len(saves) = 1
    /\ Len(saves[1].filters) = 1
    /\ Len(saves[1].query_results) > 0
    /\ Len(saves[1].query_results) < saves[1].total_buildings

\* C11.  After handleLoadProject of a project with a filter, the query text
\* is the project's query_text, the empty string included, whatever the
\* text was before.
RestoreSetsQueryText ==
    (lastOp = "load" /\ currentProject # None
        /\ Len(Filters(currentProject[1])) > 0) =>
        queryText = currentProject[1].query_text

\* C12.  handleLoadProject of a project whose filters are empty or absent
\* changes the current project and nothing else: the filter, the highlighted
\* buildings and the query text stay as they were.
LoadWithoutFiltersKeepsQuery ==
    [][ (lastOp' = "load" /\ Len(Filters(currentProject'[1])) = 0) =>
            UNCHANGED << interpretedFilter, highlightedBuildings, queryText,
                         zoneVars, loading, error, username, userProjects,
                         showSaveDialog, ioVars >> ]_vars

\* A project without filters was loaded over a filter with highlighted
\* buildings.
LoadedWithoutFilters ==
    /\ lastOp = "load"
    /\ currentProject # None
    /\ "filters" \notin DOMAIN currentProject[1]
    /\ interpretedFilter # None
    /\ highlightedBuildings # << >>
    /\ queryText # currentProject[1].query_text

\* The attributes the branches of handleLoadProject know.
KnownAttributes == {"building_type", "height_m", "floors", "land_use"}

\* The current filter is on an attribute that is not known.
UnknownAttributeSet ==
    interpretedFilter # None
        /\ interpretedFilter[1].attribute \notin KnownAttributes

\* C13.  After handleLoadProject of a project whose first filter is on an
\* attribute that is not known, nothing is highlighted and there is no
\* error and no loading that would disable the query panel; from there a
\* submit interprets the query, a clear resets, and a load of a project
\* evaluates that project's filter.
RestoreUnknownAttribute ==
    /\ [](( lastOp = "load" /\ UnknownAttributeSet) =>
            /\ highlightedBuildings = << >>
            /\ error = NoError
            /\ ~loading)
    /\ [][ UnknownAttributeSet =>
            /\ (lastOp' = "submit" /\ trim(queryText) # "") =>
                   /\ interpretedFilter' = Interpret(buildings, queryText).filter
                   /\ highlightedBuildings' =
                          Interpret(buildings, queryText).filteredBuildings
            /\ lastOp' = "clear" =>
                   /\ interpretedFilter' = None
                   /\ highlightedBuildings' = << >>
            /\ (lastOp' = "load" /\ Len(Filters(currentProject'[1])) > 0) =>
                   highlightedBuildings' =
                       SelectSeq(buildings,
                           LAMBDA b : RestoreKeeps(b,
                                          currentProject'[1].filters[1]))
         ]_vars

\* A project with a filter on year_built was loaded on a collection.
UnknownAttributeLoaded ==
    /\ lastOp = "load"
    /\ UnknownAttributeSet
    /\ interpretedFilter[1].attribute = "year_built"
    /\ buildings # << >>
    /\ highlightedBuildings = << >>

\* s is t with some of its elements left out.
RECURSIVE IsSubsequence(_, _)
IsSubsequence(s, t) ==
    IF s = << >> THEN TRUE
    ELSE IF t = << >> THEN FALSE
    ELSE IF Head(s) = Head(t) THEN IsSubsequence(Tail(s), Tail(t))
    ELSE IsSubsequence(s, Tail(t))

\* C14.  A submit of a query that is not blank and a load of a project with
\* a filter leave as highlighted buildings a subsequence of the buildings
\* (each once, in the order of the collection), and leave the buildings as
\* they were.
EvaluationKeepsOrder ==
    [][ ( \/ lastOp' = "submit" /\ trim(queryText) # ""
          \/ lastOp' = "load" /\ Len(Filters(currentProject'[1])) > 0 ) =>
            /\ IsSubsequence(highlightedBuildings', buildings)
            /\ \A i, j \in 1..Len(highlightedBuildings') :
                   i # j => highlightedBuildings'[i] # highlightedBuildings'[j]
            /\ buildings' = buildings ]_vars

\* A load left two or more buildings highlighted, and not all.
RestoredSeveral ==
    /\ lastOp = "load"
    /\ Len(highlightedBuildings) >= 2
    /\ Len(highlightedBuildings) < Len(buildings)

\* C15, as stated: after any submit, the filter and the highlighted
\* buildings are those that the query and the buildings alone determine.
SubmitDependsOnInputsOnly ==
    lastOp = "submit" =>
        /\ interpretedFilter = Interpret(buildings, queryText).filter
        /\ highlightedBuildings =
               Interpret(buildings, queryText).filteredBuildings

\* C15.  After a submit of a query that is not blank, the filter and the
\* highlighted buildings are those that the query and the buildings alone
\* determine, whatever filter, highlighted buildings or project were there
\* before.
NonBlankSubmitDependsOnInputsOnly ==
    (lastOp = "submit" /\ trim(queryText) # "") =>
        /\ interpretedFilter = Interpret(buildings, queryText).filter
        /\ highlightedBuildings =
               Interpret(buildings, queryText).filteredBuildings

\* A query was submitted after a project with another filter was loaded.
SubmittedAfterRestore ==
    /\ lastOp = "submit"
    /\ trim(queryText) # ""
    /\ currentProject # None
    /\ Len(Filters(currentProject[1])) > 0
    /\ interpretedFilter # Some(currentProject[1].filters[1])
    /\ highlightedBuildings # << >>

\* C16.  After a failure of a call to a service (the buildings of a zone,
\* a save, the list of projects) the error is set, to be dismissed.
FailureSetsError ==
    lastOp \in {"fetchFail", "saveFail", "listFail"} => error # NoError

\* A call to a service is in flight.
CallInFlight ==
    \/ \E zoneId \in ZoneIds : fetches[zoneId] > 0
    \/ saves # << >>
    \/ lists # {}

\* C17.  While a call to a service is in flight, the query input and the
\* submit trigger are not disabled: loading is not set.
SubmitEnabledDuringCalls == CallInFlight => ~loading

\* C18.  In every state, a filter that interpretation has set is on one of
\* the four attributes; on building_type or land_use its operator is = (eq)
\* and its value is a string of the attribute's categories; on height_m or
\* floors its operator is > (gt) or < (lt) and its value is a number.
FilterWellFormed ==
    interpretedFilter # None =>
        LET filter == interpretedFilter[1]
        IN  /\ filter.attribute \in KnownAttributes
            /\ filter.operator \in {"=", ">", "<"}
            /\ IF filter.attribute = "building_type"
               THEN /\ filter.operator = "="
                    /\ filter.value \in {"single_story", "low_rise",
                                         "mid_rise", "high_rise"}
               ELSE IF filter.attribute = "land_use"
               THEN /\ filter.operator = "="
                    /\ filter.value \in {"commercial", "residential",
                                         "mixed_use"}
               ELSE /\ filter.operator \in {">", "<"}
                    /\ filter.value \in Nat

\* A floors filter without a direction word in its query is set.
FloorsFilterSet ==
    /\ queryText = "lofts with 3 floors"
    /\ interpretedFilter # None
    /\ interpretedFilter[1].attribute = "floors"
    /\ interpretedFilter[1].operator = ">"

\* The height of b in metres by the priority chain on the properties that
\* are present: height_m, else height_ft, else the height string.
HeightByPresence(b) ==
    IF Has(b, "height_m") THEN Some(b.properties.height_m)
    ELSE IF Has(b, "height_ft")
    THEN Some(TimesFootInMeters(b.properties.height_ft))
    ELSE IF Has(b, "height")
    THEN HeightOfString(toLowerCase(b.properties.height))
    ELSE None

\* C19.  After a submit that yields a height_m filter, the highlighted
\* buildings are those whose height, resolved as height_m when present (0
\* included), else height_ft * 0.3048 when present, else the number of the
\* height string in its unit, compares with the filter's value as its
\* operator says; buildings without a resolved height are left out.
HeightResolvedByPresence ==
    (lastOp = "submit" /\ trim(queryText) # "" /\ interpretedFilter # None
        /\ interpretedFilter[1].attribute = "height_m") =>
        highlightedBuildings =
            SelectSeq(buildings,
                LAMBDA b :
                    /\ HeightByPresence(b) # None
                    /\ IF interpretedFilter[1].operator = ">"
                       THEN HeightByPresence(b)[1] > interpretedFilter[1].value
                       ELSE HeightByPresence(b)[1] < interpretedFilter[1].value)

\* The first letter of the unit token of the leftmost match of
\* /(\d+)\s*(?:meters?|metres?|m|feet?|ft)/ in s: "m", "f", or "" when
\* nothing matches.
MatchedUnitLetter(s) ==
    LET UnitAt(i) == i + DigitRun(s, i) + SpaceRun(s, i + DigitRun(s, i))
        Matches(i) ==
            /\ DigitRun(s, i) > 0
            /\ \E w \in {"m", "fee", "ft"} : StartsWithAt(s, UnitAt(i), w)
    IN  IF \E i \in 1..Len(s) : Matches(i)
        THEN CharAt(s, UnitAt(CHOOSE k \in 1..Len(s) :
                                  Matches(k) /\ \A l \in 1..(k - 1) : ~Matches(l)))
        ELSE ""

\* C20.  After a submit that yields a height_m filter, its value is 50 when
\* the query has no <integer> <unit>; else the integer when the unit matched
\* is a metres variant, and the integer * 0.3048 rounded to two decimals
\* when the unit matched is a feet variant, whatever else the query holds.
ThresholdByMatchedUnit ==
    (lastOp = "submit" /\ trim(queryText) # "" /\ interpretedFilter # None
        /\ interpretedFilter[1].attribute = "height_m") =>
        interpretedFilter[1].value =
            IF MatchedUnitLetter(Lowered) = "" THEN 50 * Scale
            ELSE LET n == parseInt(DigitsBefore(Lowered, {"m", "fee", "ft"})[1])
                 IN  IF MatchedUnitLetter(Lowered) = "f"
                     THEN FeetToMetersRounded(n)
                     ELSE n * Scale

\* C21.  After a submit that yields a height_m or floors filter, the
\* operator is < (lt) if and only if the lower-cased query contains under,
\* below or less than, and > (gt) otherwise; the description says shorter /
\* fewer for <, taller / more for >, and states the filter's value.
DirectionFromWords ==
    (lastOp = "submit" /\ trim(queryText) # "" /\ interpretedFilter # None
        /\ interpretedFilter[1].attribute \in {"height_m", "floors"}) =>
        LET filter == interpretedFilter[1]
            down == IncludesAny(Lowered, {"under", "below", "less than"})
        IN  /\ filter.operator = (IF down THEN "<" ELSE ">")
            /\ filter.description =
                   IF filter.attribute = "height_m"
                   THEN "Buildings " \o (IF down THEN "shorter" ELSE "taller")
                            \o " than " \o FormatNumber(filter.value)
                            \o " meters"
                   ELSE "Buildings with " \o (IF down THEN "fewer" ELSE "more")
                            \o " than " \o ToString(filter.value) \o " floors"

\* A floors query with 'below' was submitted.
BelowSubmitted ==
    /\ lastOp = "submit"
    /\ queryText = "buildings below 4 stories"
    /\ interpretedFilter # None
    /\ interpretedFilter[1].operator = "<"
    /\ interpretedFilter[1].description = "Buildings with fewer than 5 floors"

\* The category table of land_use: the words that select a record for a
\* category.
CategoryWords(category) ==
    IF category = "commercial"
    THEN {"commercial", "business", "office", "retail", "shop", "store"}
    ELSE IF category = "residential"
    THEN {"residential", "home", "house", "apartment", "condo", "dwelling"}
    ELSE {"mixed", "multi", "combination"}

\* C22.  After a submit that yields a land_use filter and after a load of a
\* project with a land_use filter of one of the three categories alike, the
\* highlighted buildings are those whose lower-cased land_use holds a word
\* of the category's table.
LandUseByOneTable ==
    ( /\ \/ lastOp = "submit" /\ trim(queryText) # ""
         \/ lastOp = "load" /\ currentProject # None
                /\ Len(Filters(currentProject[1])) > 0
      /\ interpretedFilter # None
      /\ interpretedFilter[1].attribute = "land_use"
      /\ interpretedFilter[1].value \in LandUseIntents ) =>
        highlightedBuildings =
            WithLandUseOf(CategoryWords(interpretedFilter[1].value))

\* C23.  After a submit that yields a floors filter with operator < (lt)
\* and a value above 0, every building whose floors field is present with
\* value 0 is highlighted.
ZeroFloorsSelected ==
    (lastOp = "submit" /\ trim(queryText) # "" /\ interpretedFilter # None
        /\ interpretedFilter[1].attribute = "floors"
        /\ interpretedFilter[1].operator = "<"
        /\ interpretedFilter[1].value > 0) =>
        \A i \in 1..Len(buildings) :
            (Has(buildings[i], "floors") /\ buildings[i].properties.floors = 0)
                => buildings[i] \in Range(highlightedBuildings)

\* C24.  A filter and a highlighted subset produced by a submit that follows
\* the issue of a save request are left in place by the completion of that
\* request, successful or not.
LaterSubmitSurvivesSave ==
    [][ ( /\ lastOp = "submit"
          /\ trim(queryText) # ""
          /\ Len(saves) > 0
          /\ lastOp' \in {"saveOk", "saveFail"} ) =>
            /\ interpretedFilter' = interpretedFilter
            /\ highlightedBuildings' = highlightedBuildings ]_vars

\* C25.  Every highlighted building is, by id, among the loaded buildings.
HighlightedAmongLoaded ==
    \A i \in 1..Len(highlightedBuildings) :
        \E j \in 1..Len(buildings) :
            buildings[j].id = highlightedBuildings[i].id

\* The evaluations of filter on the loaded buildings: the one of
\* handleLoadProject, and the ones of handleQuerySubmit for the texts that
\* yield filter.
EvaluationsOf(filter) ==
    { RestoreBuildings(buildings, filter) } \cup
    { m.result.filteredBuildings :
        m \in { n \in InterpretMemo : /\ n.buildings = buildings
                                      /\ n.result.filter = Some(filter) } }

\* C26.  While a filter is set and no fetch of buildings is in flight, the
\* highlighted buildings are an evaluation of the filter on the loaded
\* buildings.
HighlightedIsEvaluation ==
    (interpretedFilter # None /\ \A z \in ZoneIds : fetches[z] = 0) =>
        highlightedBuildings \in EvaluationsOf(interpretedFilter[1])

\* C28.  In every project handed to saveProject, filters is non-empty
\* exactly when interpreting its query_text yields a filter, and filters[1]
\* is then that filter.
SavedFilterFromSavedText ==
    \A i \in 1..Len(saves) :
        LET project == saves[i]
            filter == Interpreted(<< >>, project.query_text).filter
        IN  project.filters = IF trim(project.query_text) # "" /\ filter # None
                              THEN << filter[1] >> ELSE << >>

\* C30.  loading is TRUE while a fetch of buildings is in flight.
LoadingWhileFetching ==
    (\E z \in ZoneIds : fetches[z] > 0) => loading

\* C27.  While the filter is null, no building is highlighted.
NoFilterNoHighlight ==
    interpretedFilter = None => highlightedBuildings = << >>

\* A save of highlighted buildings has succeeded in a zone selected during
\* the session, after a project was restored.
SavedAfterZoneAndLoad ==
    /\ lastOp = "saveOk"
    /\ interpretedFilter = None
    /\ currentProject # None
    /\ selectedZone # store[Len(store)].target_area
    /\ store[1].highlighted_count > 0
    /\ store[Len(store)].highlighted_count > 0

\* C29.  A save without a username or without a zone issues no request and
\* changes nothing of the dashboard; a save with both issues one request and
\* leaves the query text, the filter and the highlighted buildings; a
\* rejected request leaves these three, and a resolved one resets them to
\* "", null and [].
SaveAllOrNothing ==
    [][ /\ (lastOp' = "save" /\ (username = "" \/ selectedZone = NoZone)) =>
               UNCHANGED << zoneVars, queryVars, loading, error, userVars,
                            ioVars >>
        /\ (lastOp' = "save" /\ username # "" /\ selectedZone # NoZone) =>
               /\ Len(saves') = Len(saves) + 1
               /\ UNCHANGED queryVars
        /\ lastOp' = "saveFail" => UNCHANGED queryVars
        /\ lastOp' = "saveOk" =>
               /\ queryText' = ""
               /\ interpretedFilter' = None
               /\ highlightedBuildings' = << >> ]_vars

\* The save dialog was confirmed with a filter set and no username.
SavedWithoutUsername ==
    /\ lastOp = "save"
    /\ username = ""
    /\ saves = << >>
    /\ interpretedFilter # None
    /\ highlightedBuildings # << >>

====
